---- MODULE Spec2Model ----
(***************************************************************************)
(* totp_gen.py: one run of main().  A run parses the timezone string,     *)
(* resolves the secret, resolves the base instants and prints, for each   *)
(* base instant, a header and `count` token lines.                        *)
(*                                                                         *)
(* Text values (the command-line strings, the environment variable) are   *)
(* sequences of one-character strings, so that strip(), upper(), the      *)
(* regular expression and strptime() are computed on the characters.      *)
(* Instants are integers (seconds since 1970-01-01T00:00:00Z), dates are  *)
(* proleptic Gregorian ordinals as in Python's datetime.date.             *)
(***************************************************************************)
EXTENDS Integers, Sequences, FiniteSets, TLC

VARIABLES
    args,        \* the argparse namespace: time, count, date, days, secret, tz
    env,         \* the value of the TOTP_SECRET environment variable
    now,         \* the instant datetime.now() reads
    host,        \* the host's local time zone (what fromtimestamp/mktime use)
    pc,          \* position of main(): the next call or loop step
    tz,          \* <<>> or <<utcoffset in seconds>> of the parsed timezone
    secret,      \* the resolved secret
    timestamps,  \* the base instants get_timestamps returned
    b,           \* 1-based index of the base instant generate_totps is at
    i,           \* loop variable i of generate_totps
    out,         \* the lines written to standard output, in order
    exc          \* the exception that escaped main(), "" when none

vars == <<args, env, now, host, pc, tz, secret, timestamps, b, i, out, exc>>

----------------------------------------------------------------------------
(* Characters and strings *)

None == <<"<None>">>

DigitChars == <<"0", "1", "2", "3", "4", "5", "6", "7", "8", "9">>

Digits == {DigitChars[k] : k \in 1..10}

DigitVal(c) == (CHOOSE k \in 1..10 : DigitChars[k] = c) - 1

LowerChars == <<"a", "b", "c", "d", "e", "f", "g", "h", "i", "j", "k", "l", "m",
                "n", "o", "p", "q", "r", "s", "t", "u", "v", "w", "x", "y", "z">>

UpperChars == <<"A", "B", "C", "D", "E", "F", "G", "H", "I", "J", "K", "L", "M",
                "N", "O", "P", "Q", "R", "S", "T", "U", "V", "W", "X", "Y", "Z">>

Whitespace == {" ", "\t", "\n"}

\* str.upper(), one character
UpperChar(c) ==
    IF \E k \in 1..26 : LowerChars[k] = c
      THEN UpperChars[CHOOSE k \in 1..26 : LowerChars[k] = c]
      ELSE c

\* str.upper()
Upper(s) == [k \in 1..Len(s) |-> UpperChar(s[k])]

\* only the leading whitespace removed
MutStripLeading(s) ==
    LET inside == {k \in 1..Len(s) : s[k] \notin {" ", "\t", "\n"}}
    IN  IF inside = {} THEN <<>>
        ELSE SubSeq(s, CHOOSE k \in inside : \A j \in inside : k <= j, Len(s))

\* str.strip(): leading and trailing whitespace removed
Strip(s) ==
    LET inside == {k \in 1..Len(s) : s[k] \notin Whitespace}
    IN  IF inside = {} THEN <<>>
        ELSE LET lo == CHOOSE k \in inside : \A j \in inside : k <= j
                 hi == CHOOSE k \in inside : \A j \in inside : k >= j
             IN  SubSeq(s, lo, hi)

AllDigits(s) == \A k \in 1..Len(s) : s[k] \in Digits

\* int() of a string of decimal digits
RECURSIVE IntOf(_)
IntOf(s) ==
    IF s = <<>> THEN 0
    ELSE 10 * IntOf(SubSeq(s, 1, Len(s) - 1)) + DigitVal(s[Len(s)])

\* Truthiness of an optional string: None and "" are false
Truthy(s) == s # None /\ s # <<>>

\* the parts of s between occurrences of sep (str.split)
RECURSIVE Split(_, _)
Split(s, sep) ==
    IF \A k \in 1..Len(s) : s[k] # sep THEN <<s>>
    ELSE LET p == CHOOSE k \in 1..Len(s) :
                      s[k] = sep /\ \A j \in 1..(k - 1) : s[j] # sep
         IN  <<SubSeq(s, 1, p - 1)>> \o Split(SubSeq(s, p + 1, Len(s)), sep)

----------------------------------------------------------------------------
(* Results of a call: a value, or the exception it raises *)

Ok(v) == [ok |-> TRUE, val |-> v, err |-> "", msg |-> ""]

Raise(e, m) == [ok |-> FALSE, val |-> <<>>, err |-> e, msg |-> m]

----------------------------------------------------------------------------
(* parse_timezone *)

MutTimezoneAnyOffset(offset) == TRUE

\* timezone(offset) accepts only offsets strictly between -24 h and +24 h
TimezoneOK(offset) == -86400 < offset /\ offset < 86400

\* re.fullmatch(r'UTC([+-]?)(\d{1,2})?', s): <<>> when there is no match,
\* else <<group(1), group(2)>> with "" / None for an empty / absent group
\* (\d over the ASCII digits)
TzMatch(s) ==
    IF Len(s) < 3 \/ SubSeq(s, 1, 3) # <<"U", "T", "C">> THEN <<>>
    ELSE LET rest   == SubSeq(s, 4, Len(s))
             signed == rest # <<>> /\ rest[1] \in {"+", "-"}
             sign   == IF signed THEN <<rest[1]>> ELSE <<>>
             digs   == IF signed THEN Tail(rest) ELSE rest
         IN  IF Len(digs) <= 2 /\ AllDigits(digs)
               THEN <<sign, IF digs = <<>> THEN None ELSE digs>>
               ELSE <<>>

ParseTimezone(tz_str) ==
    LET match == TzMatch(Upper(Strip(tz_str)))
    IN  IF match = <<>> THEN Raise("ValueError", "Invalid timezone format")
        ELSE LET sign  == IF match[1] # <<>> THEN match[1] ELSE <<"+">>
                 hours == IntOf(IF match[2] # None THEN match[2] ELSE <<"0">>)
                 delta == 3600 * hours
                 off   == IF sign = <<"+">> THEN delta ELSE -delta
             IN  IF TimezoneOK(off) THEN Ok(off)
                 ELSE Raise("ValueError", "offset must be strictly between -24h and 24h")

----------------------------------------------------------------------------
(* get_secret *)

\* the environment variable taking precedence over --secret
MutGetSecretEnvFirst(cli_secret, environ) ==
    LET s == IF Truthy(environ) THEN environ ELSE cli_secret
    IN  IF ~Truthy(s) THEN Raise("ValueError", "No secret provided")
        ELSE Ok(s)

\* cli_secret or os.getenv("TOTP_SECRET"); ValueError when that is falsy
GetSecret(cli_secret, environ) ==
    LET s == IF Truthy(cli_secret) THEN cli_secret ELSE environ
    IN  IF ~Truthy(s) THEN Raise("ValueError", "No secret provided")
        ELSE Ok(s)

----------------------------------------------------------------------------
(* Calendar arithmetic of datetime.date *)

MinOrdinal == 1

\* date.max.toordinal(): 9999-12-31
MaxOrdinal == 3652059

\* date(1970, 1, 1).toordinal()
EpochOrdinal == 719163

IsLeap(y) == y % 4 = 0 /\ (y % 100 # 0 \/ y % 400 = 0)

DaysBeforeMonthTable == <<0, 31, 59, 90, 120, 151, 181, 212, 243, 273, 304, 334>>

DaysInMonthTable == <<31, 28, 31, 30, 31, 30, 31, 31, 30, 31, 30, 31>>

DaysInMonth(y, m) == IF m = 2 /\ IsLeap(y) THEN 29 ELSE DaysInMonthTable[m]

DaysBeforeYear(y) ==
    (y - 1) * 365 + (y - 1) \div 4 - (y - 1) \div 100 + (y - 1) \div 400

DaysBeforeMonth(y, m) ==
    DaysBeforeMonthTable[m] + (IF m > 2 /\ IsLeap(y) THEN 1 ELSE 0)

\* date(y, m, d).toordinal()
Ymd2Ord(y, m, d) == DaysBeforeYear(y) + DaysBeforeMonth(y, m) + d

\* date.fromordinal(n) as <<year, month, day>>
Ord2Ymd(n) ==
    LET n0   == n - 1
        n400 == n0 \div 146097
        r400 == n0 % 146097
        n100 == r400 \div 36524
        r100 == r400 % 36524
        n4   == r100 \div 1461
        r4   == r100 % 1461
        n1   == r4 \div 365
        r1   == r4 % 365
        year == n400 * 400 + 1 + n100 * 100 + n4 * 4 + n1
    IN  IF n1 = 4 \/ n100 = 4 THEN <<year - 1, 12, 31>>
        ELSE LET leap  == n1 = 3 /\ (n4 # 24 \/ n100 = 3)
                 guess == (r1 + 50) \div 32
                 prec  == DaysBeforeMonthTable[guess]
                            + (IF guess > 2 /\ leap THEN 1 ELSE 0)
                 month == IF prec > r1 THEN guess - 1 ELSE guess
                 before == IF prec > r1
                             THEN prec - (DaysInMonthTable[month]
                                            + (IF month = 2 /\ leap THEN 1 ELSE 0))
                             ELSE prec
             IN  <<year, month, r1 - before + 1>>

----------------------------------------------------------------------------
(* get_timestamps *)

\* datetime.strptime(s, '%H:%M').time(): <<hour, minute>>
ParseTime(s) ==
    LET parts == Split(s, ":")
    IN  IF /\ Len(parts) = 2
           /\ Len(parts[1]) \in 1..2 /\ AllDigits(parts[1]) /\ IntOf(parts[1]) <= 23
           /\ Len(parts[2]) \in 1..2 /\ AllDigits(parts[2]) /\ IntOf(parts[2]) <= 59
          THEN Ok(<<IntOf(parts[1]), IntOf(parts[2])>>)
          ELSE Raise("ValueError", "time data does not match format '%H:%M'")

\* datetime.strptime(s, '%Y-%m-%d').date(): the date's ordinal
ParseDate(s) ==
    LET parts == Split(s, "-")
    IN  IF /\ Len(parts) = 3
           /\ Len(parts[1]) = 4 /\ AllDigits(parts[1])
           /\ Len(parts[2]) \in 1..2 /\ AllDigits(parts[2]) /\ IntOf(parts[2]) \in 1..12
           /\ Len(parts[3]) \in 1..2 /\ AllDigits(parts[3]) /\ IntOf(parts[3]) \in 1..31
          THEN LET y == IntOf(parts[1])
                   m == IntOf(parts[2])
                   d == IntOf(parts[3])
               IN  IF y < 1 THEN Raise("ValueError", "year 0 is out of range")
                   ELSE IF d > DaysInMonth(y, m)
                     THEN Raise("ValueError", "day is out of range for month")
                   ELSE Ok(Ymd2Ord(y, m, d))
          ELSE Raise("ValueError", "time data does not match format '%Y-%m-%d'")

\* An instant is <<days, seconds>>: whole days since 1970-01-01T00:00:00Z and
\* 0..86399 seconds into that day (the instant 86400 * days + seconds; the
\* pair keeps every instant of the years 1..9999 inside TLC's integers).
Inst(days, seconds) == <<days + seconds \div 86400, seconds % 86400>>

\* instant t + k seconds
AddSec(t, k) == Inst(t[1], t[2] + k)

Before(t, u) == t[1] < u[1] \/ (t[1] = u[1] /\ t[2] < u[2])

\* the calendar date of `instant` read as UTC
MutTodayUtc(instant, offset) == EpochOrdinal + instant[1]

\* datetime.now(tz=tz).date(): the calendar date of `instant` under the offset
Today(instant, offset) == EpochOrdinal + AddSec(instant, offset)[1]

\* the offset applied with the wrong sign
MutTimestampAddOffset(ordinal, hm, offset) ==
    Inst(ordinal - EpochOrdinal, hm[1] * 3600 + hm[2] * 60 + offset)

\* int(datetime.combine(d, t).replace(tzinfo=tz).timestamp())
Timestamp(ordinal, hm, offset) ==
    Inst(ordinal - EpochOrdinal, hm[1] * 3600 + hm[2] * 60 - offset)

\* [today + timedelta(days=i) for i in range(days)]: raises OverflowError at
\* the first date past date.max
DateRange(today, days) ==
    IF days > 0 /\ today + days - 1 > MaxOrdinal
      THEN Raise("OverflowError", "date value out of range")
      ELSE Ok([k \in 1..(IF days > 0 THEN days ELSE 0) |-> today + k - 1])

GetTimestamps(start_time, offset, date_str, days, instant) ==
    LET time_parts == ParseTime(start_time)
    IN  IF ~time_parts.ok THEN time_parts
        ELSE LET dates == IF Truthy(date_str)
                            THEN LET base_date == ParseDate(date_str)
                                 IN  IF base_date.ok THEN Ok(<<base_date.val>>)
                                     ELSE base_date
                            ELSE DateRange(Today(instant, offset), days)
             IN  IF ~dates.ok THEN dates
                 ELSE Ok([k \in 1..Len(dates.val) |->
                            Timestamp(dates.val[k], time_parts.val, offset)])

----------------------------------------------------------------------------
(* The host's local time: datetime.fromtimestamp() and time.mktime() *)

\* A zone is [before, at, after]: UTC offset `before` (seconds) for instants
\* earlier than `at`, `after` from `at` on.  before = after is a fixed offset;
\* after = before - 3600 is the end of daylight-saving time at `at`.
UtcOffset(zone, t) == IF Before(t, zone.at) THEN zone.before ELSE zone.after

\* the wall-clock reading of instant t: <<days, seconds>> of the wall clock
Local(zone, t) == AddSec(t, UtcOffset(zone, t))

WallOrdinal(w) == EpochOrdinal + w[1]

WallInRange(w) == WallOrdinal(w) >= MinOrdinal /\ WallOrdinal(w) <= MaxOrdinal

\* <<year, month, day, hour, minute, second>> of a wall-clock reading
Civil(w) ==
    LET ymd == Ord2Ymd(WallOrdinal(w))
    IN  <<ymd[1], ymd[2], ymd[3], w[2] \div 3600, (w[2] % 3600) \div 60, w[2] % 60>>

\* the wall-clock reading of a civil time
WallOf(c) ==
    <<Ymd2Ord(c[1], c[2], c[3]) - EpochOrdinal, c[4] * 3600 + c[5] * 60 + c[6]>>

\* datetime.fromtimestamp(t): the naive local civil time.  Raises ValueError
\* when the local year of t, or of the fold probe 24 h earlier, is outside
\* 1..9999.
FromTimestamp(zone, t) ==
    IF ~WallInRange(Local(zone, t)) \/ ~WallInRange(Local(zone, AddSec(t, -86400)))
      THEN Raise("ValueError", "year is out of range")
      ELSE Ok(Civil(Local(zone, t)))

\* time.mktime(c.timetuple()) with tm_isdst = -1: the instants whose local
\* reading is c.  A wall-clock time that occurs twice has two, and which one
\* the C library returns is not specified.
Mktime(zone, c) ==
    {t \in {AddSec(WallOf(c), -zone.before), AddSec(WallOf(c), -zone.after)} :
        Local(zone, t) = WallOf(c)}

----------------------------------------------------------------------------
(* pyotp.TOTP(secret).at(target_ts) *)

\* the time step of the moving counter (pyotp's default interval; also the
\* spacing of the targets)
Interval == 30

\* the counter values of one day
StepsPerDay == 86400 \div Interval

\* A counter is <<days, steps>>: the number StepsPerDay * days + steps.
\* int(t / Interval): the quotient truncated towards zero
Timecode(t) ==
    IF t[1] < 0 /\ t[2] % Interval # 0
      THEN LET up == (t[2] \div Interval) + 1
           IN  <<t[1] + up \div StepsPerDay, up % StepsPerDay>>
      ELSE <<t[1], t[2] \div Interval>>

B32Alphabet == {UpperChars[k] : k \in 1..26} \cup {"2", "3", "4", "5", "6", "7"}

\* base64.b32decode(padded secret, casefold=True); the key is stood for by
\* the case-folded text.  Secrets that carry their own '=' padding are not
\* among the inputs.
B32Decode(s) ==
    IF \E k \in 1..Len(s) : UpperChar(s[k]) \notin B32Alphabet
      THEN Raise("ValueError", "Non-base32 digit found")
    ELSE IF Len(s) % 8 \in {1, 3, 6}
      THEN Raise("ValueError", "Incorrect padding")
    ELSE Ok(Upper(s))

\* the HOTP value of (key, counter), uninterpreted
Hotp(key, counter) == <<key, counter>>

\* the outcomes of totp.at(t): timecode(fromtimestamp(t)), then generate_otp
At(s, zone, t) ==
    LET for_time == FromTimestamp(zone, t)
    IN  IF ~for_time.ok THEN {for_time}
        ELSE { LET counter == Timecode(u)
                   key     == B32Decode(s)
               IN  IF counter[1] < 0
                     THEN Raise("ValueError", "input must be positive integer")
                   ELSE IF ~key.ok THEN key
                   ELSE Ok(Hotp(key.val, counter))
               : u \in Mktime(zone, for_time.val) }

\* the steps counted from 1
MutTargetFromOne(ts, k) == AddSec(ts, (k + 1) * Interval)

\* target_ts = ts + i * 30
Target(ts, k) == AddSec(ts, k * Interval)

----------------------------------------------------------------------------
(* Output lines *)

\* print(f'\nTokens starting at {datetime.fromtimestamp(ts)}:')
HeaderLine(ts, stamp) ==
    [kind |-> "header", target |-> ts, stamp |-> stamp, otp |-> <<>>, msg |-> ""]

\* print(f'  {readable_time} -> {otp}')
TokenLine(target_ts, stamp, otp) ==
    [kind |-> "token", target |-> target_ts, stamp |-> stamp, otp |-> otp, msg |-> ""]

\* print(f'Error: {e}')
ErrorLine(m) ==
    [kind |-> "error", target |-> <<>>, stamp |-> <<>>, otp |-> <<>>, msg |-> m]

----------------------------------------------------------------------------
(* Inputs of a run *)

MaxCount == 3

MaxDays == 3

\* a --days value that reaches past date.max from any current date
HugeDays == 3000000

Fmt2(n) == <<DigitChars[(n \div 10) + 1], DigitChars[(n % 10) + 1]>>

Fmt4(n) == Fmt2(n \div 100) \o Fmt2(n % 100)

\* "HH:MM"
TimeText(hm) == Fmt2(hm[1]) \o <<":">> \o Fmt2(hm[2])

\* "YYYY-MM-DD"
DateText(ymd) == Fmt4(ymd[1]) \o <<"-">> \o Fmt2(ymd[2]) \o <<"-">> \o Fmt2(ymd[3])

\* --tz strings: [left][prefix][sign][digits][right]; mag is the number the
\* digits denote, -1 when they are not 1-2 digits
TzPrefixes ==
    {<<"U", "T", "C">>, <<"u", "t", "c">>, <<"U", "t", "c">>,
     <<"G", "M", "T">>, <<"P", "S", "T">>, <<"U", "T">>}

TzSigns == {<<>>, <<"+">>, <<"-">>, <<" ", "+">>, <<"-", "-">>}

TzDigits ==
    {[text |-> <<>>, mag |-> 0],
     [text |-> <<"0">>, mag |-> 0],
     [text |-> <<"3">>, mag |-> 3],
     [text |-> <<"5">>, mag |-> 5],
     [text |-> <<"0", "5">>, mag |-> 5],
     [text |-> <<"2", "3">>, mag |-> 23],
     [text |-> <<"2", "4">>, mag |-> 24],
     [text |-> <<"2", "5">>, mag |-> 25],
     [text |-> <<"9", "9">>, mag |-> 99],
     [text |-> <<"1", "2", "3">>, mag |-> -1],
     [text |-> <<"5", ":", "3", "0">>, mag |-> -1]}

TzCases ==
    [left : {<<>>, <<" ">>}, prefix : TzPrefixes, sign : TzSigns,
     digits : TzDigits, right : {<<>>, <<"\n">>}]

TzText(c) == c.left \o c.prefix \o c.sign \o c.digits.text \o c.right

TzAll == {TzText(c) : c \in TzCases}

TzFew ==
    {<<"U", "T", "C">>, <<"u", "t", "c", "-", "3">>, <<"U", "T", "C", "+", "5">>,
     <<"U", "T", "C", "+", "2", "3">>, <<"U", "T", "C", "-", "2", "3">>,
     <<"U", "T", "C", "+", "2", "4">>, <<"P", "S", "T">>}

TzValid == {<<"U", "T", "C">>, <<"u", "t", "c", "-", "3">>, <<"U", "T", "C", "+", "5">>}

\* --time strings
TimeCases == {<<9, 0>>, <<0, 59>>, <<0, 0>>, <<23, 59>>}

TimeBad == {<<"2", "4", ":", "0", "0">>, <<"0", "9", "0", "0">>, <<"0", "9", ":", "6", "0">>}

\* --date strings
DateCases ==
    {<<2024, 6, 1>>, <<2024, 1, 15>>, <<2024, 10, 27>>, <<2024, 2, 29>>,
     <<1969, 12, 31>>, <<1970, 1, 1>>, <<9999, 12, 31>>, <<1, 1, 1>>}

DateBad ==
    {<<"2", "0", "2", "4", "-", "0", "2", "-", "3", "0">>,
     <<"2", "0", "2", "3", "-", "0", "2", "-", "2", "9">>,
     <<"2", "4", "-", "0", "6", "-", "0", "1">>,
     <<"0", "0", "0", "0", "-", "0", "1", "-", "0", "1">>}

\* secrets
Good1 == <<"J", "B", "S", "W", "Y", "3", "D", "P">>

Good2 == <<"m", "f", "r", "g", "g", "z", "d", "f">>

BadDigit == <<"A", "B", "1", "!">>

BadPadding == <<"A", "B", "C">>

\* the current instant: 2026-11-04 01:00:00Z and 22:30:00Z
NowInstants == {<<20761, 3600>>, <<20761, 81000>>}

\* host zones: UTC, UTC-3, UTC+5:30, and UTC+2 until 2024-10-27T01:00:00Z
\* then UTC+1 (Central European summer time ending)
HostUTC == [before |-> 0, at |-> <<0, 0>>, after |-> 0]

HostBRT == [before |-> -10800, at |-> <<0, 0>>, after |-> -10800]

HostIST == [before |-> 19800, at |-> <<0, 0>>, after |-> 19800]

HostCET == [before |-> 7200, at |-> <<20023, 3600>>, after |-> 3600]

Hosts == {HostUTC, HostBRT, HostIST, HostCET}

InitWith(TZ, CLI, ENV, TIME, DATE, DAYS, COUNT, NOW, HOST) ==
    /\ args \in [tz : TZ, secret : CLI, time : TIME, date : DATE,
                 days : DAYS, count : COUNT]
    /\ env \in ENV
    /\ now \in NOW
    /\ host \in HOST
    /\ pc = "parse_timezone"
    /\ tz = <<>>
    /\ secret = None
    /\ timestamps = <<>>
    /\ b = 0
    /\ i = 0
    /\ out = <<>>
    /\ exc = ""

\* every --tz string, with the other values few
InitTimezones ==
    InitWith(TzAll, {None, Good1}, {None}, {TimeText(<<9, 0>>), <<"0", "9", "0", "0">>},
             {None, DateText(<<2024, 6, 1>>)}, {1}, {1}, {<<20761, 81000>>}, {HostUTC})

\* every secret and environment, with the other values few
InitSecrets ==
    InitWith(TzFew, {None, <<>>, Good1, BadDigit, BadPadding},
             {None, <<>>, Good2, BadDigit},
             {TimeText(<<9, 0>>), <<"2", "4", ":", "0", "0">>},
             {None, DateText(<<2024, 6, 1>>), <<"2", "0", "2", "4", "-", "0", "2", "-", "3", "0">>},
             {0, 1}, 0..2, {<<20761, 81000>>}, {HostUTC, HostBRT})

\* every time, date, number of days and current instant
InitDates ==
    InitWith(TzFew, {Good1}, {None},
             {TimeText(hm) : hm \in TimeCases} \cup TimeBad,
             {None, <<>>} \cup {DateText(ymd) : ymd \in DateCases} \cup DateBad,
             (-1..MaxDays) \cup {HugeDays}, {0, 1}, NowInstants, {HostUTC})

\* every count and host zone
InitTokens ==
    InitWith(TzValid, {Good1, Good2, BadDigit}, {None},
             {TimeText(hm) : hm \in TimeCases},
             {None} \cup {DateText(ymd) : ymd \in DateCases},
             1..2, -1..MaxCount, {<<20761, 81000>>}, Hosts)

Init == InitTimezones \/ InitSecrets \/ InitDates \/ InitTokens

----------------------------------------------------------------------------
(* main *)

\* an exception r raised inside the try block: `except ValueError` prints
\* one line and main returns; any other exception leaves main
Fail(r) ==
    IF r.err = "ValueError"
      THEN /\ out' = Append(out, ErrorLine(r.msg))
           /\ pc' = "done"
           /\ exc' = exc
      ELSE /\ out' = out
           /\ pc' = "raised"
           /\ exc' = r.err

\* tz = parse_timezone(args.tz)
MainParseTimezone ==
    /\ pc = "parse_timezone"
    /\ LET r == ParseTimezone(args.tz)
       IN  IF r.ok
             THEN /\ tz' = <<r.val>>
                  /\ pc' = "get_secret"
                  /\ UNCHANGED <<out, exc>>
             ELSE /\ Fail(r)
                  /\ tz' = tz
    /\ UNCHANGED <<args, env, now, host, secret, timestamps, b, i>>

\* secret = get_secret(args.secret)
MainGetSecret ==
    /\ pc = "get_secret"
    /\ LET r == GetSecret(args.secret, env)
       IN  IF r.ok
             THEN /\ secret' = r.val
                  /\ pc' = "get_timestamps"
                  /\ UNCHANGED <<out, exc>>
             ELSE /\ Fail(r)
                  /\ secret' = secret
    /\ UNCHANGED <<args, env, now, host, tz, timestamps, b, i>>

\* timestamps = get_timestamps(args.time, tz, args.date, args.days)
MainGetTimestamps ==
    /\ pc = "get_timestamps"
    /\ LET r == GetTimestamps(args.time, tz[1], args.date, args.days, now)
       IN  IF r.ok
             THEN /\ timestamps' = r.val
                  /\ b' = 1
                  /\ pc' = "for_ts"
                  /\ UNCHANGED <<out, exc>>
             ELSE /\ Fail(r)
                  /\ UNCHANGED <<timestamps, b>>
    /\ UNCHANGED <<args, env, now, host, tz, secret, i>>

\* generate_totps: `for ts in base_timestamps:` and the header line
GenHeader ==
    /\ pc = "for_ts"
    /\ b <= Len(timestamps)
    /\ LET ts == timestamps[b]
           r  == FromTimestamp(host, ts)
       IN  IF r.ok
             THEN /\ out' = Append(out, HeaderLine(ts, r.val))
                  /\ i' = 0
                  /\ pc' = "for_i"
                  /\ exc' = exc
             ELSE /\ Fail(r)
                  /\ i' = i
    /\ UNCHANGED <<args, env, now, host, tz, secret, timestamps, b>>

\* generate_totps: one turn of `for i in range(count):`
GenToken ==
    /\ pc = "for_i"
    /\ i < args.count
    /\ LET target_ts == Target(timestamps[b], i)
       IN  \E r \in At(secret, host, target_ts) :
              IF r.ok
                THEN /\ out' = Append(out, TokenLine(target_ts,
                                        FromTimestamp(host, target_ts).val, r.val))
                     /\ i' = i + 1
                     /\ UNCHANGED <<pc, exc>>
                ELSE /\ Fail(r)
                     /\ i' = i
    /\ UNCHANGED <<args, env, now, host, tz, secret, timestamps, b>>

\* generate_totps: the inner loop is exhausted, on to the next base instant
GenNextTs ==
    /\ pc = "for_i"
    /\ i >= args.count
    /\ b' = b + 1
    /\ pc' = "for_ts"
    /\ UNCHANGED <<args, env, now, host, tz, secret, timestamps, i, out, exc>>

\* generate_totps returns, and main after it
MainReturn ==
    /\ pc = "for_ts"
    /\ b > Len(timestamps)
    /\ pc' = "done"
    /\ UNCHANGED <<args, env, now, host, tz, secret, timestamps, b, i, out, exc>>

Next ==
    \/ MainParseTimezone
    \/ MainGetSecret
    \/ MainGetTimestamps
    \/ GenHeader
    \/ GenToken
    \/ GenNextTs
    \/ MainReturn

Spec == Init /\ [][Next]_vars

----------------------------------------------------------------------------
(* Vocabulary of the properties *)

Finished == pc \in {"done", "raised"}

\* get_secret / get_timestamps have returned a value
SecretResolved == secret # None

TimestampsResolved == b >= 1

Kinds(k) == {n \in 1..Len(out) : out[n].kind = k}

Reported(m) == out = <<ErrorLine(m)>>

NoSecretGiven == args.secret \in {None, <<>>} /\ env \in {None, <<>>}

\* days since 1970-01-01 of a civil date, by the era / day-of-era reckoning
RefDays(ymd) ==
    LET y   == IF ymd[2] <= 2 THEN ymd[1] - 1 ELSE ymd[1]
        era == y \div 400
        yoe == y - era * 400
        mp  == IF ymd[2] > 2 THEN ymd[2] - 3 ELSE ymd[2] + 9
        doy == (153 * mp + 2) \div 5 + ymd[3] - 1
        doe == yoe * 365 + yoe \div 4 - yoe \div 100 + doy
    IN  era * 146097 + doe - 719468

\* the instant whose wall-clock reading under `offset` is hm on day `days`
RefInstant(days, hm, offset) == AddSec(<<days, hm[1] * 3600 + hm[2] * 60>>, -offset)

\* the --tz strings of the grammar UTC[sign][1-2 digits], and what they denote
InGrammar(c) ==
    /\ c.prefix \in {<<"U", "T", "C">>, <<"u", "t", "c">>, <<"U", "t", "c">>}
    /\ c.sign \in {<<>>, <<"+">>, <<"-">>}
    /\ c.digits.mag >= 0

Denoted(c) == IF c.sign = <<"-">> THEN -3600 * c.digits.mag ELSE 3600 * c.digits.mag

\* the parts a --tz string was put together from
TzCaseOf == [t \in TzAll |-> CHOOSE c \in TzCases : TzText(c) = t]

----------------------------------------------------------------------------
(* C1 *)

\* C1: a run is all-or-nothing: a run that fails (an error line, or an escaped
\* exception) has printed no header line and no token line.
C1_AllOrNothing ==
    (Finished /\ (Kinds("error") # {} \/ pc = "raised"))
        => Kinds("header") = {} /\ Kinds("token") = {}

----------------------------------------------------------------------------
(* C2 *)

\* C2: main returns normally on every input: no exception escapes main, and a
\* failure is reported as exactly one error line.
C2_MainAlwaysReturns ==
    /\ pc # "raised"
    /\ Cardinality(Kinds("error")) <= 1

----------------------------------------------------------------------------
(* C3 *)

\* C3 as stated: with no --secret and no TOTP_SECRET the run reports
\* "No secret provided" whatever the other values are.
C3_MissingSecretWhateverTz ==
    (Finished /\ NoSecretGiven) => Reported("No secret provided")

\* C3, amended: with no --secret and no TOTP_SECRET the run prints no token
\* and reports exactly one error, "No secret provided" when --tz parses and the
\* timezone error otherwise; with a secret given, get_secret returns --secret
\* when it is non-empty, else TOTP_SECRET, whether or not it is Base32.
C3_SecretResolution ==
    /\ (Finished /\ NoSecretGiven) =>
          /\ Kinds("token") = {} /\ Kinds("header") = {}
          /\ IF tz # <<>> THEN Reported("No secret provided")
             ELSE \/ Reported("Invalid timezone format")
                  \/ Reported("offset must be strictly between -24h and 24h")
    /\ (tz # <<>> /\ pc # "get_secret" /\ ~NoSecretGiven) =>
          secret = IF args.secret \notin {None, <<>>} THEN args.secret ELSE env

\* a secret that is not Base32 is returned from --secret over TOTP_SECRET
C3_Witness ==
    /\ args.secret = BadDigit /\ env = Good2 /\ secret = BadDigit
    /\ pc = "get_timestamps"

----------------------------------------------------------------------------
(* C4 *)

\* C4: a --tz string of the grammar UTC[sign][1-2 digits] (any case,
\* surrounding whitespace ignored) with magnitude 0..23 parses to sign x digits
\* hours; a string outside the grammar is reported as "Invalid timezone format"
\* and nothing else is printed.
C4_TimezoneGrammar ==
    pc # "parse_timezone" =>
        LET c == TzCaseOf[args.tz]
        IN  IF InGrammar(c)
              THEN c.digits.mag <= 23 => tz = <<Denoted(c)>>
              ELSE /\ tz = <<>>
                   /\ pc = "done"
                   /\ Reported("Invalid timezone format")

\* " utc-05\n" parsed to -5 h
C4_Witness ==
    /\ args.tz = <<" ", "u", "t", "c", "-", "0", "5", "\n">>
    /\ tz = <<-18000>>

----------------------------------------------------------------------------
(* C5 *)

\* C5 as stated: a string of the grammar with magnitude 24..99 is accepted and
\* yields that signed number of hours.
C5_LargeOffsetsAccepted ==
    pc # "parse_timezone" =>
        LET c == TzCaseOf[args.tz]
        IN  (InGrammar(c) /\ c.digits.mag >= 24) => tz = <<Denoted(c)>>

\* C5, amended: a string of the grammar with magnitude 24..99 passes the
\* pattern but timezone() rejects the offset: parse_timezone raises, the run
\* reports that error and resolves no instant and prints nothing else.
C5_LargeOffsetsRejected ==
    pc # "parse_timezone" =>
        LET c == TzCaseOf[args.tz]
        IN  (InGrammar(c) /\ c.digits.mag >= 24)
                => /\ tz = <<>>
                   /\ pc = "done"
                   /\ timestamps = <<>>
                   /\ Reported("offset must be strictly between -24h and 24h")

C5_Witness ==
    /\ args.tz = <<"U", "T", "C", "+", "2", "5">>
    /\ pc = "done"
    /\ Reported("offset must be strictly between -24h and 24h")

----------------------------------------------------------------------------
(* C6 *)

\* C6: with a valid time HH:MM and a valid date YYYY-MM-DD, get_timestamps
\* returns exactly one instant, the one whose wall-clock reading under the
\* parsed offset is HH:MM on that date, whatever --days and the current
\* instant are.
C6_ExplicitDate ==
    (tz # <<>> /\ SecretResolved /\ pc # "get_timestamps") =>
        \A hm \in TimeCases, ymd \in DateCases :
            (args.time = TimeText(hm) /\ args.date = DateText(ymd)) =>
                /\ TimestampsResolved
                /\ tz[1] % 3600 = 0
                /\ timestamps = <<RefInstant(RefDays(ymd), hm, tz[1])>>

\* 09:00 on 2024-01-15 under UTC-3 is 12:00:00Z, with --days far too large
C6_Witness ==
    /\ args.time = TimeText(<<9, 0>>) /\ args.date = DateText(<<2024, 1, 15>>)
    /\ args.days = HugeDays
    /\ tz = <<-10800>>
    /\ timestamps = <<<<19737, 43200>>>>

----------------------------------------------------------------------------
(* C7 *)

\* days since 1970-01-01 of the current date under the parsed offset
RefToday ==
    now[1] + (CASE now[2] + tz[1] >= 86400 -> 1
                [] now[2] + tz[1] < 0      -> -1
                [] OTHER                   -> 0)

DateAbsent == args.date \in {None, <<>>}

\* max(days, 0) instants at HH:MM under the offset on today, today+1, ...
DailyInstants(hm) ==
    /\ TimestampsResolved
    /\ Len(timestamps) = (IF args.days > 0 THEN args.days ELSE 0)
    /\ \A k \in 1..Len(timestamps) :
          timestamps[k] = RefInstant(RefToday + k - 1, hm, tz[1])
    /\ \A k \in 1..(Len(timestamps) - 1) :
          /\ Before(timestamps[k], timestamps[k + 1])
          /\ AddSec(timestamps[k], 86400) = timestamps[k + 1]

\* C7 as stated: with no date, get_timestamps returns max(days, 0) instants.
C7_DateRangeAlways ==
    (tz # <<>> /\ SecretResolved /\ pc # "get_timestamps" /\ DateAbsent) =>
        \A hm \in TimeCases : args.time = TimeText(hm) => DailyInstants(hm)

\* C7, amended: with no date and today + days - 1 no later than 9999-12-31,
\* get_timestamps returns max(days, 0) instants in ascending order, at HH:MM
\* under the offset on today, today+1, ... (today read under the offset),
\* 86400 s apart, none for days <= 0; when the range passes 9999-12-31 it
\* raises OverflowError and returns nothing.
C7_DateRange ==
    (tz # <<>> /\ SecretResolved /\ pc # "get_timestamps" /\ DateAbsent) =>
        \A hm \in TimeCases :
            args.time = TimeText(hm) =>
                IF args.days <= 0 \/ RefToday + args.days - 1 <= 2932896
                  THEN DailyInstants(hm)
                  ELSE pc = "raised" /\ exc = "OverflowError" /\ ~TimestampsResolved

\* at 22:30Z on 2026-11-04 the date under UTC+5 is 2026-11-05: three instants
\* at 09:00+05:00 from that day on
C7_Witness ==
    /\ DateAbsent /\ args.days = 3 /\ args.time = TimeText(<<9, 0>>)
    /\ now = <<20761, 81000>> /\ tz = <<18000>>
    /\ timestamps = <<<<20762, 14400>>, <<20763, 14400>>, <<20764, 14400>>>>

----------------------------------------------------------------------------
(* C8 *)

BlockLen == 1 + (IF args.count > 0 THEN args.count ELSE 0)

\* the n-th line of a complete output: <<kind, instant it is for>>
ExpectedAt(n) ==
    LET ts  == timestamps[((n - 1) \div BlockLen) + 1]
        pos == (n - 1) % BlockLen
    IN  IF pos = 0 THEN <<"header", ts>>
        ELSE <<"token", AddSec(ts, 30 * (pos - 1))>>

\* what has been printed is the beginning of the complete output
PrintedInOrder ==
    /\ Len(out) <= Len(timestamps) * BlockLen
    /\ \A n \in 1..Len(out) : <<out[n].kind, out[n].target>> = ExpectedAt(n)

PrintedAll ==
    /\ Len(out) = Len(timestamps) * BlockLen
    /\ Cardinality(Kinds("token")) = Len(timestamps) * (BlockLen - 1)

\* every base instant and target is at or after the epoch and at or before
\* the end of the year 9999 on the host's wall clock
InEra ==
    \A k \in 1..Len(timestamps) :
        /\ timestamps[k][1] >= 0
        /\ \A j \in 0..(BlockLen - 1) :
              WallOrdinal(Local(host, AddSec(timestamps[k], 30 * j))) <= MaxOrdinal

\* C8 as stated: with a valid secret generate_totps emits, per base instant
\* in order, a header and count token lines for ts, ts+30, ...
C8_EmitsEveryBlock ==
    (TimestampsResolved /\ B32Decode(secret).ok) =>
        /\ PrintedInOrder
        /\ pc = "done" => PrintedAll

\* C8, amended: the same, for base instants and targets from the epoch up to
\* the end of the year 9999 on the host's wall clock.
C8_EmitsEveryBlockInEra ==
    (TimestampsResolved /\ B32Decode(secret).ok /\ InEra) =>
        /\ PrintedInOrder
        /\ pc = "done" => PrintedAll

\* two blocks of three tokens each have been printed
C8_Witness ==
    /\ pc = "done" /\ args.count = 3 /\ Len(timestamps) = 2
    /\ Len(out) = 8
    /\ out[5].kind = "header" /\ out[5].target = timestamps[2]
    /\ out[8].kind = "token" /\ out[8].target = AddSec(timestamps[2], 60)

----------------------------------------------------------------------------
(* C9 *)

\* C9: the time stamp of every header and token line is the wall-clock
\* reading of its instant under the --tz offset, on every host.
C9_StampsUnderTz ==
    \A n \in Kinds("header") \cup Kinds("token") :
        out[n].stamp = Civil(AddSec(out[n].target, tz[1]))

----------------------------------------------------------------------------
(* C10 *)

\* C10: the token of every token line is the one keyed by the secret and the
\* counter floor(target / 30), on every host.
C10_TokenKeyedByStep ==
    \A n \in Kinds("token") :
        out[n].otp = Hotp(Upper(secret), <<out[n].target[1], out[n].target[2] \div 30>>)

====
